---------------------------- MODULE Spec2Model ----------------------------
(***************************************************************************)
(* A model of the rcpcli client (src/src/client.rs, src/src/service.rs):  *)
(* the connection lifecycle, the authentication handshake, the inbound    *)
(* frame router, the service registry and the per-service dispatch        *)
(* workers.                                                                *)
(*                                                                         *)
(* Every API call runs on a caller task; routers and workers are spawned  *)
(* tasks.  One action is one step between two awaits of the source: the   *)
(* acquisition of a lock, the completion of a transport read or write, a  *)
(* channel send or receive.  Code that runs between two awaits and only   *)
(* touches task-local data belongs to the step that precedes it.          *)
(*                                                                         *)
(* The variable ret describes the call that returned in the step that led *)
(* to the current state (NoRet when that step returned from no call), so  *)
(* that "when the call returns, ..." is a predicate of the state.         *)
(***************************************************************************)
EXTENDS Naturals, Sequences, FiniteSets

\* The tasks that call the client's API concurrently (Client's methods take
\* &self, so a shared client can be driven from several tasks).
Callers == {1, 2}

\* How many API calls the callers make in one behaviour.
MaxCalls == 5
\* How many transports connect() may create in one behaviour.
MaxConnections == 2
\* How many router tasks may be alive at once.
MaxRouters == 2
\* How many dispatch workers (and queues) subscribe_service may create.
MaxWorkers == 2
\* The largest identifier of the Custom kinds the kind mapping is applied to.
MaxCustomId == 2
\* The capacity of a service queue.  The source creates mpsc::channel(100);
\* the model scales the capacity down, a full queue blocks its senders
\* in the same way.
ChannelCapacity == 1

Routers == 1 .. MaxRouters
Workers == 1 .. MaxWorkers

\* ClientState
Phases == {"Disconnected", "Connecting", "Connected", "Authenticating", "Ready", "Closing"}

\* ServiceType; Custom(id) is represented by one value.
ServiceTypes == {"Display", "Input", "Audio", "Clipboard", "FileTransfer", "App", "Custom"}
\* The kinds the modelled callers subscribe to.
CallKinds == {"Display", "Input", "Audio"}

\* Command identifiers a server may send to a client in phase Ready.
InboundCmds == {"Heartbeat", "Error", "StreamFrame", "DisplayInfo", "Ack"}
\* Command identifiers the modelled callers send through a service handle.
UserCmds == {"DisplayInfo", "LaunchApp"}

\* Configurations: the declared method and whether a PSK is configured.
Configs == [auth_method : {"PreSharedKey", "Password"}, auth_psk : BOOLEAN]

VARIABLES
    config,        \* Client.config
    state,         \* Client.state : RwLock<ClientState>
    session_info,  \* Client.session_info : "None" | "Some"
    protocol,      \* Client.protocol's content: 0 is None, n > 0 the n-th transport
    protocol_lock, \* the holder of Client.protocol's Mutex
    services,      \* Client.services : kind -> queue id (0: no entry)
    caller,        \* the caller tasks: position and locals of the running call
    ret,           \* the call that returned in the last step
    router,        \* the router tasks spawned by start()
    worker,        \* the dispatch workers spawned by subscribe_service()
    queue,         \* the mpsc channel of each worker
    held,          \* the queues whose handles (ServiceClient clones) callers hold
    oneshot,       \* the oneshot response channel of each caller's send_request
    nconn,         \* transports created so far
    nspawn,        \* workers spawned so far
    ncalls,        \* API calls begun so far
    sub_frames,    \* subscription frames written on the current transport, per kind
    lookup,        \* a ServiceType value, a text, and what the kind mapping made of them
    ids,           \* config.client_id and the client identifiers a handshake sent
    issued         \* per kind, the queue of the first handle returned since a
                   \* disconnect() last began or cleared the registry (0: none)

vars == <<config, lookup, ids, state, session_info, protocol, protocol_lock, services, caller, ret,
          router, worker, queue, held, oneshot, nconn, nspawn, ncalls, sub_frames, issued>>

shared == <<state, session_info, protocol, protocol_lock, services>>
spawned == <<router, worker, queue, held, oneshot>>
counts == <<nconn, nspawn, sub_frames, issued>>

Free == <<"free", 0>>
CallerTask(c) == <<"caller", c>>
RouterTask(r) == <<"router", r>>

\* A caller's record: its position (pc), the call it runs (op) and that call's
\* locals (kind, handle, cmd), and what the call has seen: for a subscription,
\* ready tells that it began in phase Ready, prior is the handle already
\* returned for the kind when it began, overlap whether another subscription
\* of the kind, begun in Ready, was running then; rd is the last read of the
\* handshake (or the reply to a request, or the cause of a failed dial), hs the handshake's operations.
Idle == [pc |-> "idle", op |-> "-", kind |-> "-", handle |-> 0, cmd |-> "-",
         ready |-> FALSE, prior |-> 0, overlap |-> FALSE, rd |-> "-", hs |-> <<>>]

\* No call returned in the last step.
NoRet == [c |-> 0, op |-> "-", at |-> "-", res |-> "-", kind |-> "-", handle |-> 0,
          cmd |-> "-", ready |-> FALSE, prior |-> 0, overlap |-> FALSE, rd |-> "-",
          hs |-> <<>>]

NoMsg == [cmd |-> "-", from |-> "-", resp |-> 0]
NoRouter == [pc |-> "none", frame |-> "-", gen |-> 0]
NoWorker == [pc |-> "none", kind |-> "-", msg |-> NoMsg, gen |-> 0]
NoServices == [k \in ServiceTypes |-> 0]
NoCommand == [id |-> "-", raw |-> 0]
NoResult == [ok |-> FALSE, kind |-> <<"-", 0>>]
NoLookup == [kind |-> <<"-", 0>>, text |-> "-", name |-> "-", cmd |-> NoCommand,
             parsed |-> NoResult, via |-> "-"]
NoFrames == [k \in ServiceTypes |-> 0]
\* No identifier configured (0: None), no Auth request and no Auth response sent.
NoIds == [client_id |-> 0, request |-> 0, response |-> 0]

\* A constructor that takes the client for connected.
NewAsConnected ==
    [state |-> "Connected", session_info |-> "None", protocol |-> 0,
     services |-> [k \in ServiceTypes |-> 0]]

\* Client::new: the fields of a client as constructed.
New ==
    [state |-> "Disconnected", session_info |-> "None", protocol |-> 0,
     services |-> NoServices]

\* A client as constructed, before any call, with no task spawned.
Init ==
    /\ config \in Configs
    /\ lookup = NoLookup
    /\ ids = NoIds
    /\ state = New.state
    /\ session_info = New.session_info
    /\ protocol = New.protocol
    /\ protocol_lock = Free
    /\ services = New.services
    /\ caller = [c \in Callers |-> Idle]
    /\ ret = NoRet
    /\ router = [r \in Routers |-> NoRouter]
    /\ worker = [w \in Workers |-> NoWorker]
    /\ queue = [w \in Workers |-> <<>>]
    /\ held = {}
    /\ oneshot = [c \in Callers |-> "none"]
    /\ nconn = 0
    /\ nspawn = 0
    /\ ncalls = 0
    /\ sub_frames = NoFrames
    /\ issued = NoServices

\* An idle caller begins a call.
Begin(c) ==
    /\ caller[c].pc = "idle"
    /\ ncalls < MaxCalls
    /\ ncalls' = ncalls + 1

\* The record of call op as it begins.
Call(c, op) == [caller[c] EXCEPT !.op = op]

\* The call with record rec goes on to the await at position pc.
Goto(c, rec, pc) ==
    /\ caller' = [caller EXCEPT ![c] = [rec EXCEPT !.pc = pc]]
    /\ ret' = NoRet

\* The call with record rec returns res from position caller[c].pc.
Return(c, rec, res) ==
    /\ caller' = [caller EXCEPT ![c] = Idle]
    /\ ret' = [c |-> c, op |-> rec.op, at |-> caller[c].pc, res |-> res,
               kind |-> rec.kind, handle |-> rec.handle, cmd |-> rec.cmd,
               ready |-> rec.ready, prior |-> rec.prior, overlap |-> rec.overlap,
               rd |-> rec.rd, hs |-> rec.hs]

\* A step of a spawned task returns from no call.
Background == caller' = caller /\ ret' = NoRet

-----------------------------------------------------------------------------
\* Client::connect

\* A phase check that also lets connect() run while a disconnect is closing.
MayConnectOrClosing == state \in {"Disconnected", "Closing"}

\* if state != ClientState::Disconnected { return Err(Error::Connection(..)) }
MayConnect == state = "Disconnected"

\* The phase check of connect().
ConnectCheck(c) ==
    /\ Begin(c)
    /\ IF ~MayConnect
         THEN Return(c, Call(c, "connect"), "Connection")
         ELSE Goto(c, Call(c, "connect"), "connect_set")
    /\ UNCHANGED <<config, lookup, ids, shared, spawned, counts>>

ConnectSetConnecting(c) ==
    /\ caller[c].pc = "connect_set"
    /\ state' = "Connecting"
    /\ Goto(c, caller[c], "connect_dial")
    /\ UNCHANGED <<config, lookup, ids, ncalls, session_info, protocol, protocol_lock, services,
                   spawned, counts>>

\* How the dial under time::timeout fails: TcpStream::connect returns an I/O
\* error (Ok(Err(e))), or the timeout elapses (Err(_)).
DialFailures == {"Refused", "Elapsed"}

\* A connect() that reports every failed dial as a Connection error.
DialErrorCollapsed(cause) == "Connection"

\* The error connect() returns for a failed dial.
DialError(cause) == IF cause = "Elapsed" THEN "Timeout" ELSE "Connection"

\* The dial fails, the phase is written back and the error returned; the
\* call's record keeps the cause in rd.
ConnectDialFails(c) ==
    /\ caller[c].pc = "connect_dial"
    /\ state' = "Disconnected"
    /\ \E cause \in DialFailures :
         Return(c, [caller[c] EXCEPT !.rd = cause], DialError(cause))
    /\ UNCHANGED <<config, lookup, ids, ncalls, session_info, protocol, protocol_lock, services,
                   spawned, counts>>

\* The dial succeeds: *self.protocol.lock().await = Some(Protocol::new(stream)).
\* The transport that was stored, if any, is dropped.
ConnectStore(c) ==
    /\ caller[c].pc = "connect_dial"
    /\ nconn < MaxConnections
    /\ protocol_lock = Free
    /\ protocol' = nconn + 1
    /\ nconn' = nconn + 1
    /\ sub_frames' = NoFrames
    /\ Goto(c, caller[c], "connect_ok")
    /\ UNCHANGED <<config, lookup, ids, ncalls, state, session_info, protocol_lock, services,
                   spawned, nspawn, issued>>

ConnectSetConnected(c) ==
    /\ caller[c].pc = "connect_ok"
    /\ state' = "Connected"
    /\ Return(c, caller[c], "Ok")
    /\ UNCHANGED <<config, lookup, ids, ncalls, session_info, protocol, protocol_lock, services,
                   spawned, counts>>

-----------------------------------------------------------------------------
\* Client::authenticate

\* What a read of the transport returns during the handshake: a frame with the
\* Auth identifier whose payload deserializes, one whose payload does not, a
\* frame with another identifier, end-of-stream (Ok(None)), or an error.
HandshakeReads == {"Auth", "BadPayload", "Other", "None", "Err"}
\* to_bytes followed by write_frame: both succeed, or one of them fails.
HandshakeWrites == {"ok", "ser_err", "write_err"}

\* The record after more operations of the handshake: reads and writes of the
\* transport, and the store of the session info.
Logged(rec, ops) == [rec EXCEPT !.hs = rec.hs \o ops]
Read(rec, rd) == [Logged(rec, <<"read">>) EXCEPT !.rd = rd]
\* The transport operation a to_bytes/write_frame pair performs.
Written(out) == IF out = "ser_err" THEN <<>> ELSE <<"write">>

\* A phase check that lets an authenticated client authenticate again.
MayAuthenticateOrReady == state \in {"Connected", "Ready"}

\* if state != ClientState::Connected { return Err(Error::Authentication(..)) }
MayAuthenticate == state = "Connected"

\* The phase check of authenticate().
AuthCheck(c) ==
    /\ Begin(c)
    /\ IF ~MayAuthenticate
         THEN Return(c, Call(c, "authenticate"), "Authentication")
         ELSE Goto(c, Call(c, "authenticate"), "auth_set")
    /\ UNCHANGED <<config, lookup, ids, shared, spawned, counts>>

AuthSetAuthenticating(c) ==
    /\ caller[c].pc = "auth_set"
    /\ state' = "Authenticating"
    /\ Goto(c, caller[c], "auth_lock")
    /\ UNCHANGED <<config, lookup, ids, ncalls, session_info, protocol, protocol_lock, services,
                   spawned, counts>>

\* self.protocol.lock(), the None check, and the Auth request: to_bytes and
\* write_frame, each followed by `?`.  The guard is held until the call returns.
AuthSendRequest(c) ==
    /\ caller[c].pc = "auth_lock"
    /\ protocol_lock = Free
    /\ IF protocol = 0
         THEN /\ state' = "Disconnected"
              /\ Return(c, caller[c], "Connection")
              /\ UNCHANGED protocol_lock
         ELSE \E out \in HandshakeWrites :
              /\ UNCHANGED state
              /\ IF out = "ok"
                   THEN /\ protocol_lock' = CallerTask(c)
                        /\ Goto(c, Logged(caller[c], Written(out)), "auth_read1")
                   ELSE /\ UNCHANGED protocol_lock
                        /\ Return(c, Logged(caller[c], Written(out)), "Core")
    /\ UNCHANGED <<config, lookup, ids, ncalls, session_info, protocol, services, spawned, counts>>

\* A handshake that treats every frame other than Auth as a lost transport.
ReadFailureAsClosure(rd) ==
    CASE rd = "Other" -> [phase |-> "Disconnected", res |-> "Connection"]
      [] rd = "None" -> [phase |-> "Disconnected", res |-> "Connection"]
      [] rd = "Err" -> [phase |-> "-", res |-> "Core"]
      [] rd = "BadPayload" -> [phase |-> "-", res |-> "Core"]

\* A handshake that treats end-of-stream as a rejected handshake.
ReadFailureAsMismatch(rd) ==
    CASE rd = "Other" -> [phase |-> "Connected", res |-> "Authentication"]
      [] rd = "None" -> [phase |-> "Connected", res |-> "Authentication"]
      [] rd = "Err" -> [phase |-> "-", res |-> "Core"]
      [] rd = "BadPayload" -> [phase |-> "-", res |-> "Core"]

\* The phase and the error of a handshake read that does not return a usable
\* Auth frame; the phase "-" stands for a phase left as it is (the `?` paths).
ReadFailure(rd) ==
    CASE rd = "Other" -> [phase |-> "Connected", res |-> "Authentication"]
      [] rd = "None" -> [phase |-> "Disconnected", res |-> "Connection"]
      [] rd = "Err" -> [phase |-> "-", res |-> "Core"]
      [] rd = "BadPayload" -> [phase |-> "-", res |-> "Core"]

\* A match that answers the challenge whenever a key is configured.
MethodCheckAnyKey == IF config.auth_psk THEN "ok" ELSE "rejected"

\* The match on the configured method once the challenge is parsed: "ok" when
\* a response is to be sent.
MethodCheck ==
    IF config.auth_method = "PreSharedKey" /\ config.auth_psk
      THEN "ok"
      ELSE "rejected"
MethodFailure == [phase |-> "Connected", res |-> "Authentication"]
\* The `?` after to_bytes and write_frame.
WriteFailure == [phase |-> "-", res |-> "Core"]

\* A handshake step that fails: the phase is written as the failure says, the
\* error is returned and the guard dropped.
AuthFail(c, rec, f) ==
    /\ state' = IF f.phase = "-" THEN state ELSE f.phase
    /\ protocol_lock' = Free
    /\ Return(c, rec, f.res)

\* The read of the challenge, the match on the method, and the Auth response.
AuthChallenge(c) ==
    /\ caller[c].pc = "auth_read1"
    /\ protocol_lock = CallerTask(c)
    /\ \E rd \in HandshakeReads :
         IF rd # "Auth"
           THEN AuthFail(c, Read(caller[c], rd), ReadFailure(rd))
           ELSE IF MethodCheck # "ok"
             THEN AuthFail(c, Read(caller[c], rd), MethodFailure)
             ELSE \E out \in HandshakeWrites :
                  IF out = "ok"
                    THEN /\ UNCHANGED <<state, protocol_lock>>
                         /\ Goto(c, Logged(Read(caller[c], rd), Written(out)), "auth_read2")
                    ELSE AuthFail(c, Logged(Read(caller[c], rd), Written(out)), WriteFailure)
    /\ UNCHANGED <<config, lookup, ids, ncalls, session_info, protocol, services, spawned, counts>>

\* The read of the session info.
AuthResult(c) ==
    /\ caller[c].pc = "auth_read2"
    /\ protocol_lock = CallerTask(c)
    /\ \E rd \in HandshakeReads :
         IF rd # "Auth"
           THEN AuthFail(c, Read(caller[c], rd), ReadFailure(rd))
           ELSE /\ UNCHANGED <<state, protocol_lock>>
                /\ Goto(c, Read(caller[c], rd), "auth_store")
    /\ UNCHANGED <<config, lookup, ids, ncalls, session_info, protocol, services, spawned, counts>>

\* *self.session_info.write().await = Some(session_info)
AuthStoreSession(c) ==
    /\ caller[c].pc = "auth_store"
    /\ session_info' = "Some"
    /\ Goto(c, Logged(caller[c], <<"store">>), "auth_ready")
    /\ UNCHANGED <<config, lookup, ids, ncalls, state, protocol, protocol_lock, services, spawned, counts>>

AuthSetReady(c) ==
    /\ caller[c].pc = "auth_ready"
    /\ state' = "Ready"
    /\ protocol_lock' = Free
    /\ Return(c, caller[c], "Ok")
    /\ UNCHANGED <<config, lookup, ids, ncalls, session_info, protocol, services, spawned, counts>>

-----------------------------------------------------------------------------
\* Client::disconnect

\* A router holds the registry's read guard while it waits to enqueue.
RegistryReadHeld == \E r \in Routers : router[r].pc = "send"

\* A disconnect() whose early return also clears the session info.
DisconnectCheckClearing(c) ==
    /\ Begin(c)
    /\ IF state = "Disconnected"
         THEN /\ Return(c, Call(c, "disconnect"), "Ok")
              /\ session_info' = "None"
         ELSE /\ Goto(c, Call(c, "disconnect"), "disc_set")
              /\ UNCHANGED session_info
    /\ issued' = NoServices
    /\ UNCHANGED <<config, lookup, ids, state, protocol, protocol_lock, services, spawned, nconn,
                   nspawn, sub_frames>>

\* The phase check of disconnect().
DisconnectCheck(c) ==
    /\ Begin(c)
    /\ IF state = "Disconnected"
         THEN Return(c, Call(c, "disconnect"), "Ok")
         ELSE Goto(c, Call(c, "disconnect"), "disc_set")
    /\ issued' = NoServices
    /\ UNCHANGED <<config, lookup, ids, shared, spawned, nconn, nspawn, sub_frames>>

\* The phase is set to Closing; the grace period follows.
DisconnectSetClosing(c) ==
    /\ caller[c].pc = "disc_set"
    /\ state' = "Closing"
    /\ Goto(c, caller[c], "disc_clear")
    /\ UNCHANGED <<config, lookup, ids, ncalls, session_info, protocol, protocol_lock, services,
                   spawned, counts>>

\* services.write().await.clear()
DisconnectClearServices(c) ==
    /\ caller[c].pc = "disc_clear"
    /\ ~RegistryReadHeld
    /\ services' = NoServices
    /\ issued' = NoServices
    /\ Goto(c, caller[c], "disc_close")
    /\ UNCHANGED <<config, lookup, ids, ncalls, state, session_info, protocol, protocol_lock,
                   spawned, nconn, nspawn, sub_frames>>

\* What protocol.close().await returns.
CloseOutcomes == {"closed", "close_err"}

\* The stored transport is closed (a failure is only logged, rd keeps
\* the outcome) and dropped.
DisconnectCloseProtocol(c) ==
    /\ caller[c].pc = "disc_close"
    /\ protocol_lock = Free
    /\ protocol' = 0
    /\ \E out \in CloseOutcomes :
         Goto(c, [caller[c] EXCEPT !.rd = IF protocol = 0 THEN "-" ELSE out], "disc_session")
    /\ UNCHANGED <<config, lookup, ids, ncalls, state, session_info, protocol_lock, services,
                   spawned, counts>>

\* A disconnect() that keeps the session info.
DisconnectClearSessionKeeping(c) ==
    /\ caller[c].pc = "disc_session"
    /\ UNCHANGED session_info
    /\ Goto(c, caller[c], "disc_done")
    /\ UNCHANGED <<config, lookup, ids, ncalls, state, protocol, protocol_lock, services, spawned, counts>>

\* *self.session_info.write().await = None
DisconnectClearSession(c) ==
    /\ caller[c].pc = "disc_session"
    /\ session_info' = "None"
    /\ Goto(c, caller[c], "disc_done")
    /\ UNCHANGED <<config, lookup, ids, ncalls, state, protocol, protocol_lock, services, spawned, counts>>

DisconnectSetDisconnected(c) ==
    /\ caller[c].pc = "disc_done"
    /\ state' = "Disconnected"
    /\ Return(c, caller[c], "Ok")
    /\ UNCHANGED <<config, lookup, ids, ncalls, session_info, protocol, protocol_lock, services,
                   spawned, counts>>

-----------------------------------------------------------------------------
\* Client::start and the router task it spawns

FreeRouters == {r \in Routers : router[r].pc = "none"}
Lowest(S) == CHOOSE x \in S : \A y \in S : x <= y

\* The phase check of start() and the spawn of the message processor.
StartCall(c) ==
    /\ Begin(c)
    /\ IF state # "Ready"
         THEN /\ Return(c, Call(c, "start"), "Session")
              /\ UNCHANGED router
         ELSE /\ FreeRouters # {}
              /\ router' = [router EXCEPT ![Lowest(FreeRouters)] =
                     [pc |-> "check", frame |-> "-", gen |-> nconn]]
              /\ Return(c, Call(c, "start"), "Ok")
    /\ UNCHANGED <<config, lookup, ids, shared, worker, queue, held, oneshot, counts>>

\* The head of the router's loop: the phase check.
RouterCheck(r) ==
    /\ router[r].pc = "check"
    /\ IF state # "Ready"
         THEN router' = [router EXCEPT ![r] = NoRouter]
         ELSE router' = [router EXCEPT ![r].pc = "lock"]
    /\ Background
    /\ UNCHANGED <<config, lookup, ids, ncalls, shared, worker, queue, held, oneshot, counts>>

\* protocol_lock.lock().await, and the break when no transport is stored.
RouterLock(r) ==
    /\ router[r].pc = "lock"
    /\ protocol_lock = Free
    /\ IF protocol = 0
         THEN /\ router' = [router EXCEPT ![r] = NoRouter]
              /\ UNCHANGED protocol_lock
         ELSE /\ router' = [router EXCEPT ![r].pc = "read"]
              /\ protocol_lock' = RouterTask(r)
    /\ Background
    /\ UNCHANGED <<config, lookup, ids, ncalls, state, session_info, protocol, services, worker,
                   queue, held, oneshot, counts>>

\* A process_frame that forwards heartbeats as well.
ForwardedWithHeartbeat == {"StreamFrame", "DisplayInfo", "Heartbeat"}

\* The frames process_frame forwards to the Display service.
Forwarded == {"StreamFrame", "DisplayInfo"}

\* A router that takes the end of the stream for a frame to skip.
AfterReadSkippingClosure(out) ==
    IF out = "Err" THEN "closed"
    ELSE IF out \in Forwarded THEN "process"
    ELSE "check"

\* The router's position after read_frame returned out: a frame that
\* process_frame only logs leads back to the head of the loop.
AfterRead(out) ==
    IF out \in {"None", "Err"} THEN "closed"
    ELSE IF out \in Forwarded THEN "process"
    ELSE "check"

\* protocol.read_frame().await completes and the guard is dropped; frame keeps
\* a frame to forward, or the end of the stream or the error that was read.
RouterRead(r) ==
    /\ router[r].pc = "read"
    /\ protocol_lock = RouterTask(r)
    /\ protocol_lock' = Free
    /\ \E out \in InboundCmds \cup {"None", "Err"} :
         router' = [router EXCEPT ![r].pc = AfterRead(out),
                                  ![r].frame = IF out \in Forwarded \cup {"None", "Err"}
                                                 THEN out ELSE "-"]
    /\ Background
    /\ UNCHANGED <<config, lookup, ids, ncalls, state, session_info, protocol, services, worker,
                   queue, held, oneshot, counts>>

\* Ok(None) or Err(e): the router sets the phase and stops.
RouterSetDisconnected(r) ==
    /\ router[r].pc = "closed"
    /\ state' = "Disconnected"
    /\ router' = [router EXCEPT ![r] = NoRouter]
    /\ Background
    /\ UNCHANGED <<config, lookup, ids, ncalls, session_info, protocol, protocol_lock, services,
                   worker, queue, held, oneshot, counts>>

\* The receiver of queue q is dropped when its worker's task has ended.
ReceiverDropped(q) == worker[q].pc = "done"
Full(q) == Len(queue[q]) >= ChannelCapacity

\* ServiceMessage: the frame's command, who sent it, and the caller whose
\* oneshot sender it carries (0: response_tx is None).
Envelope(cmd, from, resp) == [cmd |-> cmd, from |-> from, resp |-> resp]

\* process_frame for StreamFrame and DisplayInfo: services.read().await, the
\* lookup of Display, and send_fire_and_forget while the read guard is held;
\* the send waits (position "send") while the queue is full, and its error
\* is ignored.
RouterProcess(r) ==
    /\ router[r].pc \in {"process", "send"}
    /\ LET q == services["Display"] IN
         IF q = 0 \/ ReceiverDropped(q)
           THEN /\ router' = [router EXCEPT ![r].pc = "check", ![r].frame = "-"]
                /\ UNCHANGED queue
           ELSE IF Full(q)
             THEN /\ router[r].pc = "process"
                  /\ router' = [router EXCEPT ![r].pc = "send"]
                  /\ UNCHANGED queue
             ELSE /\ router' = [router EXCEPT ![r].pc = "check", ![r].frame = "-"]
                  /\ queue' = [queue EXCEPT ![q] =
                         Append(@, Envelope(router[r].frame, "router", 0))]
    /\ Background
    /\ UNCHANGED <<config, lookup, ids, ncalls, shared, worker, held, oneshot, counts>>

-----------------------------------------------------------------------------
\* Client::subscribe_service, Client::get_or_subscribe_service

\* A factory that also builds a service for Audio.
ImplementedWithAudio == {"Display", "Input", "Audio", "Clipboard", "FileTransfer", "App"}

\* ServiceFactory::create returns Some for these kinds.
Implemented == {"Display", "Input", "Clipboard", "FileTransfer", "App"}

\* Calls that are between the registry check and the insert.
Subscribing == {c \in Callers : caller[c].pc \in {"sub_registry", "sub_state", "sub_write", "sub_insert"}}

\* The record of a call for kind k as it begins.
CallFor(c, op, k) ==
    [caller[c] EXCEPT !.op = op, !.kind = k, !.ready = (state = "Ready"),
                      !.prior = issued[k],
                      !.overlap = \E d \in Subscribing :
                                      caller[d].kind = k /\ caller[d].ready]

\* The first handle returned for kind k since the last disconnect() call.
Issue(k, q) == IF issued[k] = 0 THEN [issued EXCEPT ![k] = q] ELSE issued

\* The registry check: a clone of the handle the registry holds for the
\* call's kind is returned, or the call goes on towards a new subscription.
RegistryCheck(c, rec, next) ==
    IF services[rec.kind] # 0
      THEN /\ Return(c, [rec EXCEPT !.handle = services[rec.kind]], "Ok")
           /\ held' = held \cup {services[rec.kind]}
           /\ issued' = Issue(rec.kind, services[rec.kind])
      ELSE /\ Cardinality(Subscribing \ {c}) + nspawn < MaxWorkers
           /\ Goto(c, rec, next)
           /\ UNCHANGED <<held, issued>>

\* The registry check that opens subscribe_service(k).
SubscribeCheck(c, k) ==
    /\ Begin(c)
    /\ RegistryCheck(c, CallFor(c, "subscribe", k), "sub_state")
    /\ UNCHANGED <<config, lookup, ids, shared, router, worker, queue, oneshot, nconn, nspawn, sub_frames>>

\* get_or_subscribe_service(k): get_service, then subscribe_service.
GetOrSubscribeCheck(c, k) ==
    /\ Begin(c)
    /\ RegistryCheck(c, CallFor(c, "get_or_subscribe", k), "sub_registry")
    /\ UNCHANGED <<config, lookup, ids, shared, router, worker, queue, oneshot, nconn, nspawn, sub_frames>>

\* The registry check of the subscribe_service that get_or_subscribe_service calls.
SubscribeRegistry(c) ==
    /\ caller[c].pc = "sub_registry"
    /\ RegistryCheck(c, caller[c], "sub_state")
    /\ UNCHANGED <<config, lookup, ids, ncalls, shared, router, worker, queue, oneshot, nconn, nspawn,
                   sub_frames>>

\* A phase check that lets subscribe_service run on an unauthenticated connection.
MaySubscribeConnected == state \in {"Ready", "Connected"}

\* if state != ClientState::Ready { return Err(Error::Session(..)) }
MaySubscribe == state = "Ready"

\* The phase check, then ServiceFactory::create.
SubscribeState(c) ==
    /\ caller[c].pc = "sub_state"
    /\ IF ~MaySubscribe THEN Return(c, caller[c], "Session")
       ELSE IF caller[c].kind \notin Implemented THEN Return(c, caller[c], "Service")
       ELSE Goto(c, caller[c], "sub_write")
    /\ UNCHANGED <<config, lookup, ids, ncalls, shared, spawned, counts>>
\* A subscription that registers its handle although the write of its
\* frame failed.
SubscribeWriteIgnoringError(c) ==
    /\ caller[c].pc = "sub_write"
    /\ protocol_lock = Free
    /\ IF protocol = 0
         THEN /\ Return(c, caller[c], "Connection")
              /\ UNCHANGED sub_frames
         ELSE \/ /\ Goto(c, caller[c], "sub_insert")
                 /\ sub_frames' = [sub_frames EXCEPT ![caller[c].kind] = @ + 1]
              \/ /\ Goto(c, caller[c], "sub_insert")
                 /\ UNCHANGED sub_frames
    /\ UNCHANGED <<config, lookup, ids, ncalls, shared, spawned, nconn, nspawn, issued>>

\* A subscription that writes its frame without taking the transport's lock.
SubscribeWriteUnlocked(c) ==
    /\ caller[c].pc = "sub_write"
    /\ IF protocol = 0
         THEN /\ Return(c, caller[c], "Connection")
              /\ UNCHANGED sub_frames
         ELSE \/ /\ Goto(c, caller[c], "sub_insert")
                 /\ sub_frames' = [sub_frames EXCEPT ![caller[c].kind] = @ + 1]
              \/ /\ Return(c, caller[c], "Core")
                 /\ UNCHANGED sub_frames
    /\ UNCHANGED <<config, lookup, ids, ncalls, shared, spawned, nconn, nspawn, issued>>


\* The subscription request is written under the transport's lock.
SubscribeWrite(c) ==
    /\ caller[c].pc = "sub_write"
    /\ protocol_lock = Free
    /\ IF protocol = 0
         THEN /\ Return(c, caller[c], "Connection")
              /\ UNCHANGED sub_frames
         ELSE \/ /\ Goto(c, caller[c], "sub_insert")
                 /\ sub_frames' = [sub_frames EXCEPT ![caller[c].kind] = @ + 1]
              \/ /\ Return(c, caller[c], "Core")
                 /\ UNCHANGED sub_frames
    /\ UNCHANGED <<config, lookup, ids, ncalls, shared, spawned, nconn, nspawn, issued>>

\* The channel is created, the handle stored in the registry, the worker
\* spawned and the handle returned.
SubscribeInsert(c) ==
    /\ caller[c].pc = "sub_insert"
    /\ ~RegistryReadHeld
    /\ LET w == nspawn + 1
           k == caller[c].kind IN
         /\ services' = [services EXCEPT ![k] = w]
         /\ worker' = [worker EXCEPT ![w] =
                [pc |-> "start", kind |-> k, msg |-> NoMsg, gen |-> nconn]]
         /\ nspawn' = w
         /\ held' = held \cup {w}
         /\ issued' = Issue(k, w)
         /\ Return(c, [caller[c] EXCEPT !.handle = w], "Ok")
    /\ UNCHANGED <<config, lookup, ids, ncalls, state, session_info, protocol, protocol_lock, router,
                   queue, oneshot, nconn, sub_frames>>

-----------------------------------------------------------------------------
\* The dispatch worker spawned by subscribe_service

\* impl Clone for ServiceMessage: the clone has no response channel.
CloneMessage(m) == [m EXCEPT !.resp = 0]

\* Service::handle_message of the built-in services: the frame sent into the
\* message's response channel ("-" when nothing is sent) and the result.
HandleMessage(kind, m) ==
    LET known == CASE kind = "Display" -> m.cmd \in {"DisplayInfo", "StreamFrame"}
                   [] kind = "App" -> m.cmd = "LaunchApp"
                   [] OTHER -> TRUE
        reply == IF m.resp = 0 THEN "-"
                 ELSE IF ~known THEN "Error"
                 ELSE IF kind = "Display" /\ m.cmd = "StreamFrame" THEN "-"
                 ELSE "Ack"
    IN [result |-> "Ok", reply |-> reply]

\* Every sender of queue q is gone: the registry's handle and the callers' clones.
Closed(q) == q \notin held /\ \A k \in ServiceTypes : services[k] # q

\* The oneshot channels after the senders carried by msgs are dropped: a
\* request that got no reply sees its channel closed.
DropSenders(msgs) ==
    [c \in Callers |->
        IF oneshot[c] = "pending" /\ \E i \in DOMAIN msgs : msgs[i].resp = c
          THEN "dropped"
          ELSE oneshot[c]]

\* A worker that goes from its start hook straight to the stop hook.
WorkerStartStopping(w) ==
    /\ worker[w].pc = "start"
    /\ worker' = [worker EXCEPT ![w].pc = "done"]
    /\ Background
    /\ UNCHANGED <<config, lookup, ids, ncalls, shared, router, queue, held, oneshot, counts>>

\* service.start().await; the built-in services start without error.
WorkerStart(w) ==
    /\ worker[w].pc = "start"
    /\ worker' = [worker EXCEPT ![w].pc = "recv"]
    /\ Background
    /\ UNCHANGED <<config, lookup, ids, ncalls, shared, router, queue, held, oneshot, counts>>

\* rx.recv().await: the next envelope, or None when every sender is gone;
\* then the loop ends, service.stop() runs and the task ends.
WorkerRecv(w) ==
    /\ worker[w].pc = "recv"
    /\ IF queue[w] # <<>>
         THEN /\ worker' = [worker EXCEPT ![w].pc = "check", ![w].msg = Head(queue[w])]
              /\ queue' = [queue EXCEPT ![w] = Tail(@)]
         ELSE /\ Closed(w)
              /\ worker' = [worker EXCEPT ![w].pc = "done"]
              /\ UNCHANGED queue
    /\ Background
    /\ UNCHANGED <<config, lookup, ids, ncalls, shared, router, held, oneshot, counts>>

\* A worker that hands every received envelope to the handler, whatever the phase.
WorkerCheckIgnoringPhase(w) ==
    /\ worker[w].pc = "check"
    /\ worker' = [worker EXCEPT ![w].pc = "handle"]
    /\ UNCHANGED <<queue, oneshot>>
    /\ Background
    /\ UNCHANGED <<config, lookup, ids, ncalls, shared, router, held, counts>>

\* The phase check on a received envelope.  Outside Ready the loop ends:
\* service.stop() runs, and the envelope and the receiver (with every queued
\* envelope) are dropped.  In Ready the worker enters service.handle_message.
WorkerCheck(w) ==
    /\ worker[w].pc = "check"
    /\ IF state # "Ready"
         THEN /\ worker' = [worker EXCEPT ![w].pc = "done", ![w].msg = NoMsg]
              /\ queue' = [queue EXCEPT ![w] = <<>>]
              /\ oneshot' = DropSenders(<<worker[w].msg>> \o queue[w])
         ELSE /\ worker' = [worker EXCEPT ![w].pc = "handle"]
              /\ UNCHANGED <<queue, oneshot>>
    /\ Background
    /\ UNCHANGED <<config, lookup, ids, ncalls, shared, router, held, counts>>

\* service.handle_message(msg.clone()).await returns: the handler ran on a
\* clone of the envelope; an error is only logged and the loop continues.
WorkerHandle(w) ==
    /\ worker[w].pc = "handle"
    /\ LET h == HandleMessage(worker[w].kind, CloneMessage(worker[w].msg)) IN
         /\ oneshot' = IF h.reply # "-"
                         THEN [oneshot EXCEPT ![worker[w].msg.resp] = h.reply]
                         ELSE IF h.result # "Ok"
                           THEN DropSenders(<<worker[w].msg>>)
                           ELSE oneshot
         /\ worker' = IF h.result = "Ok"
                        THEN [worker EXCEPT ![w].pc = "write"]
                        ELSE [worker EXCEPT ![w].pc = "recv", ![w].msg = NoMsg]
    /\ Background
    /\ UNCHANGED <<config, lookup, ids, ncalls, shared, router, queue, held, counts>>

\* The envelope's frame is written under the transport's lock when a transport
\* is stored (a write error is only logged); the envelope is dropped.
WorkerWrite(w) ==
    /\ worker[w].pc = "write"
    /\ protocol_lock = Free
    /\ worker' = [worker EXCEPT ![w].pc = "recv", ![w].msg = NoMsg]
    /\ oneshot' = DropSenders(<<worker[w].msg>>)
    /\ Background
    /\ UNCHANGED <<config, lookup, ids, ncalls, shared, router, queue, held, counts>>

-----------------------------------------------------------------------------
\* ServiceClient::send_request, ServiceClient::send_fire_and_forget

\* self.tx.send(msg).await on the queue of rec.handle: an error when the
\* receiver is dropped, a wait (at position `waiting`) while the queue is
\* full; else the envelope is queued, and the call returns Ok or, for a
\* request, goes on to await the reply.
TxSend(c, rec, waiting) ==
    LET q == rec.handle
        resp == IF rec.op = "send_request" THEN c ELSE 0 IN
    IF ReceiverDropped(q)
      THEN /\ Return(c, rec, "Service")
           /\ UNCHANGED <<queue, oneshot>>
      ELSE IF Full(q)
        THEN /\ caller[c].pc # waiting
             /\ Goto(c, rec, waiting)
             /\ UNCHANGED <<queue, oneshot>>
        ELSE /\ queue' = [queue EXCEPT ![q] = Append(@, Envelope(rec.cmd, "user", resp))]
             /\ IF resp = 0
                  THEN /\ Return(c, rec, "Ok")
                       /\ UNCHANGED oneshot
                  ELSE /\ Goto(c, rec, "req_wait")
                       /\ oneshot' = [oneshot EXCEPT ![c] = "pending"]

\* send_request(frame) or send_fire_and_forget(frame) on a handle of queue q.
Send(c, op, q, cmd) ==
    /\ Begin(c)
    /\ q \in held
    /\ TxSend(c, [caller[c] EXCEPT !.op = op, !.handle = q, !.cmd = cmd], "send_wait")
    /\ UNCHANGED <<config, lookup, ids, shared, router, worker, held, counts>>

\* A send that waited for room in the queue completes.
SendResume(c) ==
    /\ caller[c].pc = "send_wait"
    /\ TxSend(c, caller[c], "send_wait")
    /\ UNCHANGED <<config, lookup, ids, ncalls, shared, router, worker, held, counts>>

\* rx.await of send_request: the reply, or an error when the sender was dropped.
RequestReply(c) ==
    /\ caller[c].pc = "req_wait"
    /\ oneshot[c] \in {"Ack", "Error", "dropped"}
    /\ IF oneshot[c] = "dropped"
         THEN Return(c, caller[c], "Service")
         ELSE Return(c, [caller[c] EXCEPT !.rd = oneshot[c]], "Ok")
    /\ oneshot' = [oneshot EXCEPT ![c] = "none"]
    /\ UNCHANGED <<config, lookup, ids, ncalls, shared, router, worker, queue, held, counts>>

\* The callers drop every clone they hold of the handle of queue q.
DropHandle(q) ==
    /\ q \in held
    /\ \A c \in Callers : caller[c].pc = "send_wait" => caller[c].handle # q
    /\ held' = held \ {q}
    /\ Background
    /\ UNCHANGED <<config, lookup, ids, ncalls, shared, router, worker, queue, oneshot, counts>>

-----------------------------------------------------------------------------
Next ==
    \/ \E c \in Callers :
         \/ ConnectCheck(c) \/ ConnectSetConnecting(c) \/ ConnectDialFails(c)
         \/ ConnectStore(c) \/ ConnectSetConnected(c)
         \/ AuthCheck(c) \/ AuthSetAuthenticating(c) \/ AuthSendRequest(c)
         \/ AuthChallenge(c) \/ AuthResult(c) \/ AuthStoreSession(c) \/ AuthSetReady(c)
         \/ DisconnectCheck(c) \/ DisconnectSetClosing(c) \/ DisconnectClearServices(c)
         \/ DisconnectCloseProtocol(c) \/ DisconnectClearSession(c)
         \/ DisconnectSetDisconnected(c)
         \/ StartCall(c)
         \/ \E k \in CallKinds : SubscribeCheck(c, k) \/ GetOrSubscribeCheck(c, k)
         \/ SubscribeRegistry(c) \/ SubscribeState(c) \/ SubscribeWrite(c)
         \/ SubscribeInsert(c)
         \/ \E q \in Workers, cmd \in UserCmds :
              Send(c, "send_request", q, cmd) \/ Send(c, "send_fire_and_forget", q, cmd)
         \/ SendResume(c) \/ RequestReply(c)
    \/ \E q \in Workers : DropHandle(q)
    \/ \E r \in Routers :
         \/ RouterCheck(r) \/ RouterLock(r) \/ RouterRead(r)
         \/ RouterSetDisconnected(r) \/ RouterProcess(r)
    \/ \E w \in Workers :
         \/ WorkerStart(w) \/ WorkerRecv(w) \/ WorkerCheck(w)
         \/ WorkerHandle(w) \/ WorkerWrite(w)

Spec == Init /\ [][Next]_vars

-----------------------------------------------------------------------------
\* The dispatch worker with a service whose handler fails.  The worker runs a
\* Box<dyn Service>, whose handle_message returns Result<()>; the built-in
\* services only ever return Ok(()), so these steps are no part of Next.

\* service.handle_message(msg.clone()).await returns Err(e).
WorkerHandleFails(w) ==
    /\ worker[w].pc = "handle"
    /\ worker' = [worker EXCEPT ![w].pc = "failed"]
    /\ Background
    /\ UNCHANGED <<config, lookup, ids, ncalls, shared, router, queue, held, oneshot, counts>>

\* A worker that writes the frame of an envelope whose handling failed.
WorkerContinueWriting(w) ==
    /\ worker[w].pc = "failed"
    /\ worker' = [worker EXCEPT ![w].pc = "write"]
    /\ Background
    /\ UNCHANGED <<config, lookup, ids, ncalls, shared, router, queue, held, oneshot, counts>>

\* The Err arm: the error is logged and `continue` takes the worker back to
\* rx.recv(); the envelope is dropped.
WorkerContinue(w) ==
    /\ worker[w].pc = "failed"
    /\ worker' = [worker EXCEPT ![w].pc = "recv", ![w].msg = NoMsg]
    /\ oneshot' = DropSenders(<<worker[w].msg>>)
    /\ Background
    /\ UNCHANGED <<config, lookup, ids, ncalls, shared, router, queue, held, counts>>

FailingHandlerNext ==
    \/ Next
    \/ \E w \in Workers : WorkerHandleFails(w) \/ WorkerContinue(w)

FailingHandlerSpec == Init /\ [][FailingHandlerNext]_vars

TypeOK ==
    /\ state \in Phases
    /\ session_info \in {"None", "Some"}
    /\ protocol \in 0 .. MaxConnections
    /\ nconn <= MaxConnections /\ nspawn <= MaxWorkers /\ ncalls <= MaxCalls
    /\ \A k \in ServiceTypes : services[k] \in 0 .. MaxWorkers
    /\ \A w \in Workers : Len(queue[w]) <= ChannelCapacity

-----------------------------------------------------------------------------
\* ServiceType::as_str, ServiceType::subscription_command, ServiceType::from_str

\* A ServiceType value: the variant and, for Custom, its identifier.
Unit(variant) == <<variant, 0>>
Custom(id) == <<"Custom", id>>
BuiltinKinds ==
    {Unit(v) : v \in {"Display", "Input", "Audio", "Clipboard", "FileTransfer", "App"}}
CustomKinds == {Custom(id) : id \in 0 .. MaxCustomId}
AllKinds == BuiltinKinds \cup CustomKinds

\* The texts the lookup is applied to besides the names as_str produces.
Texts == {"display", "Display", "INPUT", "audio", "Clipboard", "file-transfer",
          "File-Transfer", "file_transfer", "app", "APP", "custom", "Custom", ""}

\* str::to_lowercase on the texts of the model.
to_lowercase(s) ==
    CASE s = "Display" -> "display"
      [] s = "INPUT" -> "input"
      [] s = "Clipboard" -> "clipboard"
      [] s = "File-Transfer" -> "file-transfer"
      [] s = "APP" -> "app"
      [] s = "Custom" -> "custom"
      [] OTHER -> s

as_str(k) ==
    CASE k[1] = "Display" -> "display"
      [] k[1] = "Input" -> "input"
      [] k[1] = "Audio" -> "audio"
      [] k[1] = "Clipboard" -> "clipboard"
      [] k[1] = "FileTransfer" -> "file-transfer"
      [] k[1] = "App" -> "app"
      [] k[1] = "Custom" -> "custom"

\* A command identifier: a member of rcpcore's CommandId, or the raw byte of
\* a Custom kind.
CommandId(name) == [id |-> name, raw |-> 0]
Raw(byte) == [id |-> "raw", raw |-> byte]

subscription_command(k) ==
    CASE k[1] = "Display" -> CommandId("SubscribeDisplay")
      [] k[1] = "Input" -> CommandId("SubscribeInput")
      [] k[1] = "Audio" -> CommandId("SubscribeAudio")
      [] k[1] = "Clipboard" -> CommandId("SubscribeClipboard")
      [] k[1] = "FileTransfer" -> CommandId("SubscribeFileTransfer")
      [] k[1] = "App" -> CommandId("ServiceSubscribe")
      [] k[1] = "Custom" -> Raw(k[2])

Ok(k) == [ok |-> TRUE, kind |-> k]
Err == [ok |-> FALSE, kind |-> Unit("()")]

\* A lookup that spells the file transfer kind with an underscore.
from_str_underscore(s) ==
    LET l == to_lowercase(s) IN
    CASE l = "display" -> Ok(Unit("Display"))
      [] l = "input" -> Ok(Unit("Input"))
      [] l = "audio" -> Ok(Unit("Audio"))
      [] l = "clipboard" -> Ok(Unit("Clipboard"))
      [] l = "file_transfer" -> Ok(Unit("FileTransfer"))
      [] l = "app" -> Ok(Unit("App"))
      [] OTHER -> Err

\* impl FromStr for ServiceType
from_str(s) ==
    LET l == to_lowercase(s) IN
    CASE l = "display" -> Ok(Unit("Display"))
      [] l = "input" -> Ok(Unit("Input"))
      [] l = "audio" -> Ok(Unit("Audio"))
      [] l = "clipboard" -> Ok(Unit("Clipboard"))
      [] l = "file-transfer" -> Ok(Unit("FileTransfer"))
      [] l = "app" -> Ok(Unit("App"))
      [] OTHER -> Err

\* The client's variables, which the kind mapping does not touch.
client == <<config, state, session_info, protocol, protocol_lock, services, caller, ret,
            router, worker, queue, held, oneshot, nconn, nspawn, ncalls, sub_frames,
            issued>>

\* A kind and a text to apply the mapping to, on a client as constructed.
MappingInit ==
    /\ \E k \in AllKinds, t \in Texts :
         lookup = [NoLookup EXCEPT !.kind = k, !.text = t]
    /\ ids = NoIds
    /\ config \in Configs
    /\ state = New.state
    /\ session_info = New.session_info
    /\ protocol = New.protocol
    /\ protocol_lock = Free
    /\ services = New.services
    /\ caller = [c \in Callers |-> Idle]
    /\ ret = NoRet
    /\ router = [r \in Routers |-> NoRouter]
    /\ worker = [w \in Workers |-> NoWorker]
    /\ queue = [w \in Workers |-> <<>>]
    /\ held = {}
    /\ oneshot = [c \in Callers |-> "none"]
    /\ nconn = 0
    /\ nspawn = 0
    /\ ncalls = 0
    /\ sub_frames = NoFrames
    /\ issued = NoServices

\* kind.as_str()
AsStr ==
    /\ lookup.name = "-"
    /\ lookup' = [lookup EXCEPT !.name = as_str(lookup.kind)]
    /\ UNCHANGED <<client, ids>>

\* kind.subscription_command()
SubscriptionCommand ==
    /\ lookup.cmd = NoCommand
    /\ lookup' = [lookup EXCEPT !.cmd = subscription_command(lookup.kind)]
    /\ UNCHANGED <<client, ids>>

\* text.parse::<ServiceType>()
FromStr ==
    /\ lookup.via = "-"
    /\ lookup' = [lookup EXCEPT !.parsed = from_str(lookup.text), !.via = "text"]
    /\ UNCHANGED <<client, ids>>

\* kind.as_str().parse::<ServiceType>()
FromStrOfName ==
    /\ lookup.via = "-"
    /\ lookup.name # "-"
    /\ lookup' = [lookup EXCEPT !.parsed = from_str(lookup.name), !.via = "name"]
    /\ UNCHANGED <<client, ids>>

MappingNext == AsStr \/ SubscriptionCommand \/ FromStr \/ FromStrOfName

MappingSpec == MappingInit /\ [][MappingNext]_vars

-----------------------------------------------------------------------------
\* The client identifiers of a handshake (AuthPayload.client_id and
\* AuthResponse.client_id), for every configured identifier.

\* The values Uuid::new_v4() may return.
MaxUuid == 6
Uuids == 1 .. MaxUuid

\* self.config.client_id.unwrap_or_else(Uuid::new_v4): the values the
\* expression may have.
ClientIdOr(client_id) == IF client_id # 0 THEN {client_id} ELSE Uuids

\* A client as constructed from a configuration with or without an identifier.
HandshakeIdInit ==
    /\ \E id \in {0} \cup Uuids : ids = [NoIds EXCEPT !.client_id = id]
    /\ lookup = NoLookup
    /\ config \in Configs
    /\ state = New.state
    /\ session_info = New.session_info
    /\ protocol = New.protocol
    /\ protocol_lock = Free
    /\ services = New.services
    /\ caller = [c \in Callers |-> Idle]
    /\ ret = NoRet
    /\ router = [r \in Routers |-> NoRouter]
    /\ worker = [w \in Workers |-> NoWorker]
    /\ queue = [w \in Workers |-> <<>>]
    /\ held = {}
    /\ oneshot = [c \in Callers |-> "none"]
    /\ nconn = 0
    /\ nspawn = 0
    /\ ncalls = 0
    /\ sub_frames = NoFrames
    /\ issued = NoServices

\* The AuthPayload of the Auth request is built.
AuthRequestId ==
    /\ ids.request = 0
    /\ \E id \in ClientIdOr(ids.client_id) : ids' = [ids EXCEPT !.request = id]
    /\ UNCHANGED <<client, lookup>>

\* The AuthResponse is built, once the challenge is read and the configured
\* method is one the client answers.
AuthResponseId ==
    /\ ids.request # 0 /\ ids.response = 0
    /\ MethodCheck = "ok"
    /\ \E id \in ClientIdOr(ids.client_id) : ids' = [ids EXCEPT !.response = id]
    /\ UNCHANGED <<client, lookup>>

HandshakeIdNext == AuthRequestId \/ AuthResponseId

HandshakeIdSpec == HandshakeIdInit /\ [][HandshakeIdNext]_vars

-----------------------------------------------------------------------------
\* Properties

\* Caller c begins call op in this step.
Called(op) ==
    \E c \in Callers :
        /\ caller[c].pc = "idle"
        /\ \/ caller'[c].pc # "idle" /\ caller'[c].op = op
           \/ ret'.c = c /\ ret'.op = op /\ ret'.at = "idle"

\* The call that returned in the last step is an authenticate() that went past
\* its phase check and failed.
AuthFailed == ret.op = "authenticate" /\ ret.at # "idle" /\ ret.res # "Ok"

\* The handshake log holds a store of the session info.
Stored(hs) == \E i \in DOMAIN hs : hs[i] = "store"

\* The transitions of the lifecycle state machine.
Listed ==
    { <<"Disconnected", "Connecting">>, <<"Connecting", "Connected">>,
      <<"Connecting", "Disconnected">>, <<"Connected", "Authenticating">>,
      <<"Authenticating", "Ready">>, <<"Authenticating", "Connected">>,
      <<"Authenticating", "Disconnected">>, <<"Ready", "Closing">>,
      <<"Closing", "Disconnected">>, <<"Ready", "Disconnected">> }

\* C1: every change of the phase is one of the listed transitions, under
\* every interleaving of connect, authenticate, disconnect, the router and
\* the workers.
OnlyListedTransitions ==
    [][state' # state => <<state, state'>> \in Listed]_vars

\* C2: whenever authenticate() returns an error after it entered
\* Authenticating, the phase at return is Connected or Disconnected, never
\* Authenticating; a closed or failing transport yields Disconnected.
AuthErrorLeavesAuthenticating ==
    AuthFailed =>
        /\ state \in {"Connected", "Disconnected"}
        /\ ret.rd \in {"None", "Err"} => state = "Disconnected"

\* C3: a frame with another identifier than Auth at either read of the
\* handshake makes authenticate() fail with an Authentication error, leaves
\* the phase Connected, and the call stores no session info.
NonAuthFrameRejected ==
    (ret.op = "authenticate" /\ ret.rd = "Other") =>
        /\ ret.res = "Authentication"
        /\ state = "Connected"
        /\ ~Stored(ret.hs)

\* A non-Auth frame arrived at the second read, after a full first round trip.
NonAuthFrameAtSecondRead ==
    /\ ret.op = "authenticate" /\ ret.rd = "Other" /\ ret.at = "auth_read2"
    /\ ret.hs = <<"write", "read", "write", "read">>

\* C4: end-of-stream at either read of the handshake makes authenticate()
\* fail and leaves the phase Disconnected.
EndOfStreamDisconnects ==
    (ret.op = "authenticate" /\ ret.rd = "None") =>
        /\ ret.res # "Ok"
        /\ state = "Disconnected"

\* The transport closed at the first read, while a transport is still stored.
EndOfStreamAtFirstRead ==
    /\ ret.op = "authenticate" /\ ret.rd = "None" /\ ret.at = "auth_read1"
    /\ protocol # 0

\* C5: two concurrent subscribe_service(Display) calls in Ready return
\* handles of one queue, and exactly one subscription frame is written: a
\* call that began in Ready while another, begun in Ready, was subscribing
\* returns the queue first handed out, with one frame on the wire.
ConcurrentSubscribeShares ==
    (ret.op = "subscribe" /\ ret.kind = "Display" /\ ret.ready /\ ret.overlap
        /\ ret.res = "Ok" /\ state = "Ready") =>
        /\ ret.handle = issued["Display"]
        /\ sub_frames["Display"] = 1

\* C6: once a call has returned a handle for a kind, every later
\* subscribe_service for the kind, with no disconnect in between, returns a
\* handle of the same queue from the registry check: it writes no frame and
\* spawns no worker.
SubscribeIdempotent ==
    (ret.op = "subscribe" /\ ret.prior # 0 /\ issued[ret.kind] = ret.prior) =>
        /\ ret.res = "Ok"
        /\ ret.handle = ret.prior
        /\ ret.at = "idle"

PhaseChecked ==
    \E c \in Callers : caller[c].pc = "sub_state" /\ caller'[c] # caller[c]

DisconnectLeavesNothing ==
    (ret.op = "disconnect" /\ ret.res = "Ok") =>
        /\ session_info = "None"
        /\ services = NoServices

\* C9: disconnect() called while the phase is Disconnected returns success
\* and changes neither the phase, the session info, the registry nor the
\* transport.
DisconnectWhenDisconnectedIsNoOp ==
    [][(Called("disconnect") /\ state = "Disconnected") =>
          /\ ret'.op = "disconnect" /\ ret'.res = "Ok"
          /\ UNCHANGED <<state, session_info, services, protocol, protocol_lock>>]_vars

\* disconnect() returned at once on a client whose router had seen the
\* connection close: a transport is still stored.
DisconnectedNoOpReturned ==
    /\ ret.op = "disconnect" /\ ret.at = "idle" /\ ret.res = "Ok"
    /\ state = "Disconnected" /\ protocol # 0

\* C10: connect() called while the phase is not Disconnected fails with a
\* Connection error; nothing is dialled and the phase and the transport are
\* unchanged.
ConnectWhenNotDisconnectedFails ==
    [][(Called("connect") /\ state # "Disconnected") =>
          /\ ret'.op = "connect" /\ ret'.res = "Connection"
          /\ UNCHANGED <<state, protocol, nconn>>]_vars

\* connect() was refused on a client that is Ready.
ConnectRefusedWhenReady ==
    /\ ret.op = "connect" /\ ret.at = "idle" /\ ret.res = "Connection"
    /\ state = "Ready" /\ protocol # 0

\* The step is the return of a connect() whose dial failed.
DialFailed == ret'.op = "connect" /\ ret'.at = "connect_dial"

\* C11: when the dial of connect() fails, the phase returns to Disconnected
\* and the call stores no transport; an elapsed timeout yields a Timeout
\* error and an I/O failure a Connection error.
DialFailureRestoresDisconnected ==
    [][DialFailed =>
          /\ state' = "Disconnected"
          /\ UNCHANGED <<protocol, nconn>>
          /\ ret'.rd = "Elapsed" => ret'.res = "Timeout"
          /\ ret'.rd = "Refused" => ret'.res = "Connection"]_vars

\* The dial of a connect() on a fresh client timed out.
DialTimedOut ==
    /\ ret.op = "connect" /\ ret.rd = "Elapsed" /\ ret.res = "Timeout"
    /\ state = "Disconnected" /\ protocol = 0

\* C12: authenticate() called while the phase is not Connected fails without
\* writing or reading a frame, and leaves the phase and the session info
\* unchanged.
AuthenticateWhenNotConnectedFails ==
    [][(Called("authenticate") /\ state # "Connected") =>
          /\ ret'.op = "authenticate" /\ ret'.res = "Authentication"
          /\ ret'.hs = <<>>
          /\ UNCHANGED <<state, session_info, protocol, protocol_lock>>]_vars

\* authenticate() was refused on a client that is Ready and holds a session.
AuthenticateRefusedWhenReady ==
    /\ ret.op = "authenticate" /\ ret.at = "idle" /\ ret.res = "Authentication"
    /\ state = "Ready" /\ session_info = "Some"

\* The configuration declares the pre-shared-key method and holds a key.
KeyConfigured == config.auth_method = "PreSharedKey" /\ config.auth_psk

\* The number of frames a handshake log says were written.
Writes(hs) == Cardinality({i \in DOMAIN hs : hs[i] = "write"})

\* C13: when the configured method is not pre-shared-key, or no PSK is
\* configured, authenticate() never succeeds and never writes an Auth
\* response; once the challenge is received it fails with an Authentication
\* error and the phase reverts to Connected.
UnusableMethodRejected ==
    (ret.op = "authenticate" /\ ~KeyConfigured) =>
        /\ ret.res # "Ok"
        /\ Writes(ret.hs) <= 1
        /\ ret.rd = "Auth" =>
             /\ ret.res = "Authentication"
             /\ state = "Connected"
             /\ ret.hs = <<"write", "read">>

\* The challenge arrived at a client configured for pre-shared-key without a key.
MissingKeyRejected ==
    /\ ret.op = "authenticate" /\ ret.rd = "Auth" /\ ret.res = "Authentication"
    /\ config.auth_method = "PreSharedKey" /\ ~config.auth_psk

\* The command identifiers the dispatch table of a built-in service of kind
\* k recognizes.
Recognizes(k, cmd) ==
    CASE k = "Display" -> cmd \in {"DisplayInfo", "StreamFrame"}
      [] k = "App" -> cmd = "LaunchApp"
      [] OTHER -> TRUE

\* Worker w hands its envelope to the handler in this step, in phase Ready.
Handled(w) == worker[w].pc = "handle" /\ worker'[w].pc # "handle"

\* C14: for every request envelope sent with send_request to a subscribed
\* built-in service while the phase is Ready and its worker is running, the
\* requester receives the reply the handler produces: an Ack frame when the
\* handler recognizes the command identifier, an Error frame when it does not.
RequestsAnswered ==
    [][\A w \in Workers :
          (Handled(w) /\ worker[w].msg.resp # 0) =>
              oneshot'[worker[w].msg.resp] =
                  IF Recognizes(worker[w].kind, worker[w].msg.cmd) THEN "Ack" ELSE "Error"]_vars

\* The kinds ServiceFactory::create builds no service for.
Unimplemented == {"Audio", "Custom"}

\* C15: subscribe_service(kind) for a kind with no registered implementation
\* (Audio, Custom) in phase Ready fails with a Service error; no frame is
\* written for the kind, the registry never holds it and no worker is
\* spawned for it.
UnimplementedKindRefused ==
    /\ \A k \in Unimplemented :
          /\ services[k] = 0
          /\ sub_frames[k] = 0
          /\ \A w \in Workers : worker[w].kind # k
    /\ (ret.op \in {"subscribe", "get_or_subscribe"} /\ ret.kind \in Unimplemented
          /\ state = "Ready") =>
          /\ ret.res = "Service"
          /\ ret.handle = 0
          /\ ret.at = "sub_state"

\* subscribe_service(Audio) was refused on a Ready client.
AudioRefusedWhenReady ==
    /\ ret.op = "subscribe" /\ ret.kind = "Audio" /\ ret.res = "Service"
    /\ state = "Ready"

\* The names and the command identifiers of the service kinds.
KindNames == {"display", "input", "audio", "clipboard", "file-transfer", "app", "custom"}
KindCommands ==
    {CommandId(n) : n \in {"SubscribeDisplay", "SubscribeInput", "SubscribeAudio",
                           "SubscribeClipboard", "SubscribeFileTransfer",
                           "ServiceSubscribe"}}
      \cup {Raw(b) : b \in 0 .. 255}

\* C16: the kind mapping is total and round-trips: every ServiceType value
\* has a name and a subscription command identifier; looking up the name of
\* a built-in kind returns that kind, and the name of a Custom kind looks up
\* to no kind.
KindMappingRoundTrips ==
    /\ lookup.name # "-" => lookup.name \in KindNames
    /\ lookup.cmd # NoCommand => lookup.cmd \in KindCommands
    /\ lookup.via = "name" =>
          /\ lookup.kind \in BuiltinKinds => lookup.parsed = Ok(lookup.kind)
          /\ lookup.kind \in CustomKinds => ~lookup.parsed.ok

\* The name of FileTransfer was looked up, after its command was computed.
FileTransferLookedUp ==
    /\ lookup.kind = Unit("FileTransfer") /\ lookup.via = "name" /\ lookup.parsed.ok
    /\ lookup.cmd # NoCommand

\* C17: a freshly constructed client, whatever its configuration, is in
\* phase Disconnected with no session info, no transport and an empty
\* registry before any operation is called.
FreshClientIsDisconnected ==
    ncalls = 0 =>
        /\ state = "Disconnected"
        /\ session_info = "None"
        /\ protocol = 0
        /\ \A k \in ServiceTypes : services[k] = 0

\* A fresh client configured with a method other than pre-shared-key and a key.
FreshClientWithPassword ==
    /\ ncalls = 0 /\ config.auth_method = "Password" /\ config.auth_psk
    /\ \A c \in Callers : caller[c].pc = "idle"

\* A task is waiting for the transport's lock in order to write or close: a
\* subscribing caller, disconnect(), or a worker relaying a frame.
WriterWaiting ==
    \/ \E c \in Callers : caller[c].pc \in {"sub_write", "disc_close"}
    \/ \E w \in Workers : worker[w].pc = "write"

\* C18: a task that needs to write to the transport is not blocked until the
\* next inbound frame arrives: a router that is waiting for a frame does not
\* hold the transport's lock against a waiting writer (with a silent server
\* the read never completes, and neither would the writer).
WritersNotBlockedByRead ==
    \A r \in Routers :
        (router[r].pc = "read" /\ WriterWaiting) => protocol_lock # RouterTask(r)

\* Worker w is parked in rx.recv() with nothing queued.
Parked(w) == worker[w].pc = "recv" /\ queue[w] = <<>>

\* C19: after disconnect() has cleared the registry, every worker that was
\* running leaves its loop, also when the caller keeps clones of the handles
\* and sends nothing more: a worker parked on an empty queue once the
\* registry is empty finds its channel closed, whoever holds a clone.
ClearedRegistryReleasesWorkers ==
    \A w \in Workers : (services = NoServices /\ Parked(w)) => Closed(w)

\* Worker w is inside its service's message handler.
InHandler(w) == worker[w].pc = "handle"

\* A router waits for room in the full queue of worker w, holding the
\* registry's read guard (which disconnect() and a subscribing caller wait for).
RouterWaitsOn(w) ==
    \E r \in Routers : router[r].pc = "send" /\ services["Display"] = w /\ Full(w)

\* C20: a message handler that never returns stalls only its own worker: no
\* router (and so no disconnect() or subscribe_service behind the router's
\* registry guard) waits for a worker that is inside its handler.
StuckHandlerStallsOnlyItsWorker ==
    \A w \in Workers : InHandler(w) => ~RouterWaitsOn(w)

\* The router tasks that are alive.
LiveRouters == {r \in Routers : router[r].pc # "none"}

\* C21: at most one router task is alive at any time, whatever sequence of
\* start(), disconnect(), connect() and authenticate() calls was made.
AtMostOneRouter == Cardinality(LiveRouters) <= 1

\* The dispatch workers of kind k whose task has not ended.
LiveWorkers(k) == {w \in Workers : worker[w].kind = k /\ worker[w].pc \notin {"none", "done"}}

\* C22: in every reachable state there is at most one live dispatch worker
\* (and so one live queue) per service kind.
AtMostOneWorkerPerKind == \A k \in ServiceTypes : Cardinality(LiveWorkers(k)) <= 1

\* Worker w writes the frame of its envelope to the stored transport in this step.
WorkerWrote(w) == worker[w].pc = "write" /\ worker'[w].pc # "write" /\ protocol # 0

\* C23: a dispatch worker writes an envelope's frame to the transport only
\* when the envelope carries an outbound frame meant for the server: not a
\* frame the router received from the server and forwarded, and not the
\* frame of a request that is fulfilled through the response channel.
WorkerWritesOnlyOutbound ==
    [][\A w \in Workers :
          WorkerWrote(w) => (worker[w].msg.from # "router" /\ worker[w].msg.resp = 0)]_vars

\* Caller c is between the first write and the last read of its handshake.
Handshaking(c) == caller[c].pc \in {"auth_read1", "auth_read2"}

\* A task other than caller c uses the transport in this step: a router's
\* read completes, a worker writes, or another caller passes its subscription
\* write, its close of the transport or a step of its own handshake.
OthersUseTransport(c) ==
    \/ \E r \in Routers : router[r].pc = "read" /\ router'[r] # router[r]
    \/ \E w \in Workers : WorkerWrote(w)
    \/ \E d \in Callers \ {c} :
         /\ caller[d].pc \in {"sub_write", "disc_close", "auth_lock", "auth_read1", "auth_read2"}
         /\ caller'[d] # caller[d]

\* C24: between the first write and the last read of a handshake no other
\* task reads from or writes to the transport, and the transport is neither
\* closed nor replaced.
HandshakeUninterleaved ==
    [][\A c \in Callers :
          Handshaking(c) => (protocol' = protocol /\ ~OthersUseTransport(c))]_vars

\* A handshake is under way while a router waits for the transport's lock.
HandshakeWithRouterWaiting ==
    \E c \in Callers, r \in Routers : Handshaking(c) /\ router[r].pc = "lock"

\* The transport operations among the logged operations of a handshake.
TransportOps(hs) == SelectSeq(hs, LAMBDA op : op \in {"read", "write"})
\* The fixed exchange: Auth request, challenge, Auth response, session info.
Exchange == <<"write", "read", "write", "read">>
IsPrefix(s, t) == Len(s) <= Len(t) /\ \A i \in 1 .. Len(s) : s[i] = t[i]

\* Caller c is in its handshake: past the write of the phase Authenticating
\* and not yet past the last read.
InExchange(c) == caller[c].pc \in {"auth_lock", "auth_read1", "auth_read2"}

\* C25: within one authenticate() call the transport operations are a prefix
\* of write, read, write, read, with no retry, and the phase is
\* Authenticating throughout the exchange.
HandshakeIsFixedExchange ==
    /\ \A c \in Callers : IsPrefix(TransportOps(caller[c].hs), Exchange)
    /\ IsPrefix(TransportOps(ret.hs), Exchange)
    /\ \A c \in Callers : InExchange(c) => state = "Authenticating"

\* C26: in every reachable state whose phase is Ready the session info is
\* present (is_authenticated() implies that session_info() is not absent).
ReadyHasSessionInfo == state = "Ready" => session_info = "Some"

\* Caller c leaves position pc of its call in this step.
Leaves(c, pc) == caller[c].pc = pc /\ caller'[c] # caller[c]

\* C27: a disconnect() called in a phase other than Disconnected performs
\* its steps in this order, each step doing only its own part: the phase is
\* set to Closing, the registry is cleared, the transport is closed and
\* dropped, the session info is cleared, the phase is set to Disconnected;
\* the call then returns Ok, also when closing the transport failed.
DisconnectStepsInOrder ==
    [][\A c \in Callers :
          /\ (Called("disconnect") /\ caller[c].pc = "idle" /\ caller'[c].op = "disconnect"
                  /\ state # "Disconnected") =>
                 (caller'[c].pc = "disc_set" /\ UNCHANGED <<shared>>)
          /\ Leaves(c, "disc_set") =>
                 /\ state' = "Closing" /\ caller'[c].pc = "disc_clear"
                 /\ UNCHANGED <<services, protocol, session_info>>
          /\ Leaves(c, "disc_clear") =>
                 /\ services' = NoServices /\ caller'[c].pc = "disc_close"
                 /\ UNCHANGED <<state, protocol, session_info>>
          /\ Leaves(c, "disc_close") =>
                 /\ protocol' = 0 /\ caller'[c].pc = "disc_session"
                 /\ UNCHANGED <<state, services, session_info>>
          /\ Leaves(c, "disc_session") =>
                 /\ session_info' = "None" /\ caller'[c].pc = "disc_done"
                 /\ UNCHANGED <<state, services, protocol>>
          /\ Leaves(c, "disc_done") =>
                 /\ state' = "Disconnected"
                 /\ ret'.c = c /\ ret'.op = "disconnect" /\ ret'.res = "Ok"
                 /\ UNCHANGED <<services, protocol, session_info>>
          /\ (ret'.c = c /\ ret'.op = "disconnect" /\ ret'.at # "idle") =>
                 ret'.at = "disc_done"]_vars

\* A disconnect() returned Ok after closing its transport failed.
DisconnectReturnedAfterCloseError ==
    ret.op = "disconnect" /\ ret.at = "disc_done" /\ ret.rd = "close_err" /\ ret.res = "Ok"

\* Router r completes a step from position pc.
RouterLeaves(r, pc) == router[r].pc = pc /\ router'[r] # router[r]

\* C28: when the router's read returns end-of-stream or an error, the router
\* sets the phase to Disconnected and terminates without reading again; a
\* frame whose processing fails (the forward to a queue whose receiver is
\* gone) leaves the phase as it is and takes the router back to the head of
\* its loop.
RouterStopsOnClosureOnly ==
    [][\A r \in Routers :
          /\ RouterLeaves(r, "read") =>
                 /\ state' = state
                 /\ router'[r].frame \in {"None", "Err"} <=> router'[r].pc = "closed"
          /\ RouterLeaves(r, "closed") =>
                 state' = "Disconnected" /\ router'[r] = NoRouter
          /\ (RouterLeaves(r, "process") \/ RouterLeaves(r, "send")) =>
                 state' = state /\ router'[r].pc \in {"check", "send"}]_vars

\* A router is about to forward a frame to the Display queue, whose
\* receiver is gone: the forward fails.
RouterForwardFails ==
    \E r \in Routers :
        /\ router[r].pc = "process"
        /\ services["Display"] # 0 /\ ReceiverDropped(services["Display"])

\* An envelope is appended to queue q in this step.
Enqueued(q) == Len(queue'[q]) = Len(queue[q]) + 1 /\ queue'[q] = Append(queue[q], queue'[q][Len(queue'[q])])
\* The envelope appended to queue q in this step.
Newest(q) == queue'[q][Len(queue'[q])]

\* C29: the router enqueues an envelope only for a StreamFrame or
\* DisplayInfo frame, only onto the queue the registry holds for Display,
\* and only without a response channel; a read enqueues nothing, and no
\* processing step changes the phase.  Without a Display entry the frame is
\* dropped and the router returns to the head of its loop.
RouterForwardsOnlyToDisplay ==
    [][/\ \A q \in Workers :
            (Enqueued(q) /\ Newest(q).from = "router") =>
                /\ q = services["Display"]
                /\ Newest(q).cmd \in {"StreamFrame", "DisplayInfo"}
                /\ Newest(q).resp = 0
       /\ \A r \in Routers :
            /\ RouterLeaves(r, "read") => (queue' = queue /\ state' = state)
            /\ (RouterLeaves(r, "process") /\ services["Display"] = 0) =>
                   (queue' = queue /\ state' = state /\ router'[r].pc = "check")
            /\ (RouterLeaves(r, "process") \/ RouterLeaves(r, "send")) =>
                   /\ router[r].frame \in {"StreamFrame", "DisplayInfo"}
                   /\ state' = state
                   /\ \A q \in Workers : queue'[q] # queue[q] => Newest(q).cmd = router[r].frame]_vars

\* A queue holds an envelope that the router forwarded.
RouterEnvelopeQueued ==
    \E q \in Workers : \E i \in DOMAIN queue[q] : queue[q][i].from = "router"

\* Worker w enters position pc in this step.
WorkerEnters(w, pc) == worker[w].pc # pc /\ worker'[w].pc = pc

WorkerLeaves(w, pc) == worker[w].pc = pc /\ worker'[w] # worker[w]

\* C31: when a worker's phase check on a dequeued envelope observes a phase
\* other than Ready, the worker leaves its loop: the envelope is not handed
\* to the handler, its frame is not written, and the worker takes no step
\* afterwards, so it processes no later envelope.
WorkerExitsOutsideReady ==
    [][\A w \in Workers :
          /\ (WorkerLeaves(w, "check") /\ state # "Ready") =>
                 /\ worker'[w].pc = "done" /\ worker'[w].msg = NoMsg
                 /\ queue'[w] = <<>>
                 /\ UNCHANGED <<state, protocol, protocol_lock>>
          /\ worker[w].pc = "done" => (worker'[w] = worker[w] /\ queue'[w] = queue[w])]_vars

\* A worker holds a dequeued envelope, with more queued behind it, and the
\* phase is not Ready.
WorkerChecksOutsideReady ==
    \E w \in Workers :
        worker[w].pc = "check" /\ state # "Ready" /\ queue[w] # <<>>

\* C32: when the handler returns an error for an envelope, the worker does
\* not write the envelope's frame, does not terminate and does not call
\* stop: it drops the envelope and goes back to receive the next one.  A
\* frame is written only for an envelope whose handling succeeded.
HandlerErrorIsNotFatal ==
    [][\A w \in Workers :
          /\ WorkerLeaves(w, "failed") =>
                 /\ worker'[w].pc = "recv" /\ worker'[w].msg = NoMsg
                 /\ UNCHANGED <<state, protocol, protocol_lock, queue>>
          /\ WorkerEnters(w, "write") => worker[w].pc = "handle"
          /\ WorkerEnters(w, "done") => worker[w].pc \in {"recv", "check"}]_vars

\* A worker's handler failed on an envelope while the next envelope waits in
\* its queue.
WorkerReceivedAfterError ==
    \E w \in Workers :
        worker[w].pc = "failed" /\ queue[w] # <<>>

\* The subscription of caller c returns error res in this step.
SubscribeFails(c, res) ==
    ret'.c = c /\ ret'.op \in {"subscribe", "get_or_subscribe"} /\ ret'.res = res

\* C33: a subscribe_service(kind) that finds no registry entry, the phase
\* Ready and an implementation for the kind writes exactly one subscription
\* frame for the kind, before the handle is registered and the worker is
\* spawned; when the write fails or no transport is stored the call returns
\* an error, and the registry and the workers are as they were.
SubscribeWritesBeforeRegistering ==
    [][/\ \A w \in Workers :
            WorkerEnters(w, "start") =>
                \E d \in Callers : Leaves(d, "sub_insert") /\ ret'.handle = w
       /\ \A c \in Callers :
            /\ Leaves(c, "sub_state") => UNCHANGED <<services, worker, sub_frames>>
            /\ Leaves(c, "sub_write") =>
                   /\ UNCHANGED <<services, worker>>
                   /\ \/ /\ protocol # 0 /\ caller'[c].pc = "sub_insert"
                         /\ sub_frames' = [sub_frames EXCEPT ![caller[c].kind] = @ + 1]
                      \/ /\ SubscribeFails(c, IF protocol = 0 THEN "Connection" ELSE "Core")
                         /\ sub_frames' = sub_frames
            /\ (caller[c].pc # "sub_insert" /\ caller'[c].pc = "sub_insert") =>
                   caller[c].pc = "sub_write"
            /\ Leaves(c, "sub_insert") =>
                   /\ sub_frames' = sub_frames
                   /\ ret'.c = c /\ ret'.res = "Ok"
                   /\ services'[caller[c].kind] = ret'.handle
                   /\ WorkerEnters(ret'.handle, "start")]_vars

\* A subscription returned the error of a failed write of its frame.
SubscribeWriteFailed ==
    ret.op = "subscribe" /\ ret.at = "sub_write" /\ ret.res = "Core"

\* A router waits for an inbound frame, holding the transport's lock.
RouterAwaitsFrame == \E r \in Routers : router[r].pc = "read" /\ protocol_lock = RouterTask(r)

\* C34: every disconnect() call returns, also while the router waits for an
\* inbound frame that never arrives: a disconnect() that has cleared the
\* registry and is about to close the transport is not kept from it by a
\* router that holds the transport's lock for its read.
DisconnectNotHeldByRouter ==
    \A c \in Callers : caller[c].pc = "disc_close" => ~RouterAwaitsFrame

\* The request of caller c is in the hands of a worker that waits for the
\* transport's lock: the response channel is open as long as the worker
\* keeps the envelope.
RequestHeldAtWrite(c) ==
    /\ caller[c].pc = "req_wait" /\ oneshot[c] = "pending"
    /\ \E w \in Workers : worker[w].pc = "write" /\ worker[w].msg.resp = c

\* C35: every send_request call returns, also when the worker is waiting
\* for the transport: a request whose envelope a worker holds while waiting
\* to write is not kept waiting by a router that holds the transport's lock
\* for its read.
RequestNotHeldBehindRead ==
    \A c \in Callers : RequestHeldAtWrite(c) => ~RouterAwaitsFrame

\* A task spawned when the gen-th transport was the latest is at work on a
\* later transport.
Stale(task) == task.gen < protocol

\* C36: a router or worker spawned during one session never operates on a
\* later one: in phase Ready no router spawned before the latest connect()
\* reads from the transport, and no worker spawned before it handles an
\* envelope or writes its frame.
NoTaskOutlivesItsSession ==
    state = "Ready" =>
        /\ \A r \in Routers : router[r].pc = "read" => ~Stale(router[r])
        /\ \A w \in Workers : worker[w].pc \in {"handle", "write"} => ~Stale(worker[w])

\* C37: in every reachable state whose phase is Ready, each kind the registry
\* holds has had its subscription frame written on the current transport;
\* no registry entry survives from an earlier connection.
RegistrySubscribedOnTransport ==
    state = "Ready" =>
        \A k \in ServiceTypes : services[k] # 0 => sub_frames[k] > 0

\* C38: within one handshake the client identifier of the Auth response
\* equals the one of the Auth request, for every configuration, also one
\* without a client identifier.
SameClientIdInHandshake ==
    ids.response # 0 => ids.response = ids.request

\* The connect() calls that have passed the phase check.
Connecting == {c \in Callers : caller[c].pc \in {"connect_set", "connect_dial", "connect_ok"}}

\* C39: when two connect() calls run concurrently on a Disconnected client,
\* at most one of them passes the phase check and dials.
AtMostOneConnectDials == Cardinality(Connecting) <= 1

\* C40: in every reachable state whose phase is Connected, Authenticating or
\* Ready (is_connected() is true) a transport is stored.
ConnectedHasTransport ==
    state \in {"Connected", "Authenticating", "Ready"} => protocol # 0

=============================================================================
